---- MODULE Spec2Model ----
(***************************************************************************)
(* Response unification of argilla's feedback schemas                      *)
(* (src/src/argilla/client/feedback/schemas.py): the strategies that       *)
(* reduce the responses of each FeedbackRecord to unified_responses.       *)
(*                                                                         *)
(* Python values are tagged with their Python type, so that the pydantic   *)
(* validation of ValueSchema.value can be modelled by what it does:        *)
(*   [type |-> "int",   n |-> 4]                                           *)
(*   [type |-> "str",   s |-> "x"]                                         *)
(*   [type |-> "list",  l |-> <<"x", "y">>]                                *)
(*   [type |-> "float", num |-> 14, den |-> 3]   (the float num/den)       *)
(***************************************************************************)
EXTENDS Integers, Sequences, FiniteSets, TLC

VARIABLES
    qtype,      \* type of the dataset's questions: "rating", "label" or "multi_label"
    records,    \* the List[FeedbackRecord] the caller holds
    call,       \* the last unify_responses call: strategy enum, member and field argument
    result,     \* what that call did: returned a value or raised an error
    repeated,   \* history: "yes" when the last call repeated the call before it,
                \* "no" when it did not, "off" where the history is not kept
    object,     \* the schema object (question, binding, record) last constructed
    db          \* the server's table of stored responses, in insertion order

vars == <<qtype, records, call, result, repeated, object, db>>

----------------------------------------------------------------------------
(* Bounds of the model *)

\* the numbers of records a collection may hold
CollectionSizes == 0..2
\* largest number of responses in the collection, over all its records
MaxResponses == 3

\* the question names a caller may pass; responses answer only "q1"
QuestionNames == {"q1", "q2"}
AnsweredNames == {"q1"}
\* RatingQuestion.values of the dataset's rating questions
RatingValues == {1, 2}
\* labels of the dataset's label and multi-label questions
Labels == {"x", "y"}

----------------------------------------------------------------------------
(* Python values *)

PyInt(n) == [type |-> "int", n |-> n]
PyStr(s) == [type |-> "str", s |-> s]
PyList(l) == [type |-> "list", l |-> l]
PyFloat(num, den) == [type |-> "float", num |-> num, den |-> den]

\* ValueSchema.value: Union[StrictStr, StrictInt, List[str]]. The strict types
\* accept only an instance of the type itself, List[str] only a sequence: a
\* float matches no member of the union and validation fails.
ValueSchema_accepts(v) == v.type \in {"str", "int", "list"}

RatingTags == {"mean", "majority", "max", "min"}
LabelTags == {"majority", "majority_weighted", "disagreement"}

\* UnificationValueSchema.strategy: Union[RatingQuestionStrategy,
\* LabelQuestionStrategy, MultiLabelQuestionStrategy], given the member's string
\* value: pydantic takes the first enum of the union that has this value.
StrategyField(tag) ==
    IF tag \in RatingTags THEN [enum |-> "RatingQuestionStrategy", tag |-> tag]
    ELSE IF tag \in LabelTags THEN [enum |-> "LabelQuestionStrategy", tag |-> tag]
    ELSE [enum |-> "MultiLabelQuestionStrategy", tag |-> tag]

UnificationValueSchema(v, tag) == [value |-> v, strategy |-> StrategyField(tag)]

\* FeedbackRecord.unified_responses: None until a strategy assigns a dict.
\* None is modelled as the mapping without entries.
NoUnifiedResponses == [q \in {} |-> 0]

\* What a strategy assigns to unified_responses[field]: one UnificationValueSchema
\* ("single") or a list of them ("list").
Single(uv) == [shape |-> "single", items |-> <<uv>>]
ListOf(uvs) == [shape |-> "list", items |-> uvs]

----------------------------------------------------------------------------
(* The collections a caller can hold *)

ValuesOfType(t) ==
    IF t = "rating" THEN {PyInt(n) : n \in RatingValues}
    ELSE IF t = "label" THEN {PyStr(s) : s \in Labels}
    ELSE {PyList(<<"x">>), PyList(<<"x", "y">>), PyList(<<"y", "y">>)}

\* ResponseSchema: values is a Dict[str, ValueSchema]. A submitted response
\* answers the dataset's question (QuestionSchema.required defaults to True), a
\* discarded one answers it or carries no value.
ResponseSchema(t) ==
    [status : {"submitted"}, values : [AnsweredNames -> ValuesOfType(t)]]
    \cup [status : {"discarded"},
          values : UNION {[D -> ValuesOfType(t)] : D \in SUBSET AnsweredNames}]

RECURSIVE SeqsOfLen(_, _)
SeqsOfLen(S, n) ==
    IF n = 0 THEN {<<>>}
    ELSE {Append(s, x) : s \in SeqsOfLen(S, n - 1), x \in S}

\* a record as FeedbackRecord's construction leaves it: responses a list,
\* unified_responses None
FeedbackRecord(responses) ==
    [responses |-> responses, unified_responses |-> NoUnifiedResponses]

\* the collections of n records holding at most b responses together
RECURSIVE Collections(_, _, _)
Collections(t, n, b) ==
    IF n = 0 THEN {<<>>}
    ELSE UNION {
           {Append(c, FeedbackRecord(rs)) :
                c \in Collections(t, n - 1, b - k),
                rs \in SeqsOfLen(ResponseSchema(t), k)}
           : k \in 0..b}

----------------------------------------------------------------------------
(* Helpers of the reductions *)

\* SubmittedResponses without the status filter
SubmittedResponses_unfiltered(rec) == rec.responses

\* [resp for resp in rec.responses if resp.status == "submitted"]
SubmittedResponses(rec) ==
    SelectSeq(rec.responses, LAMBDA resp : resp.status = "submitted")

\* resp.values[field] raises KeyError when the response has no such key
HasAllValues(responses, field) ==
    \A i \in 1..Len(responses) : field \in DOMAIN responses[i].values

FieldValues(responses, field) ==
    [i \in 1..Len(responses) |-> responses[i].values[field]]

RECURSIVE sum(_)
sum(ratings) ==
    IF ratings = <<>> THEN 0
    ELSE Head(ratings).n + sum(Tail(ratings))

\* max taking the smaller of each pair
RECURSIVE max_swapped(_)
max_swapped(ratings) ==
    IF Len(ratings) = 1 THEN Head(ratings)
    ELSE LET m == max_swapped(Tail(ratings))
         IN  IF m.n < Head(ratings).n THEN m ELSE Head(ratings)

RECURSIVE max(_)
max(ratings) ==
    IF Len(ratings) = 1 THEN Head(ratings)
    ELSE LET m == max(Tail(ratings))
         IN  IF m.n > Head(ratings).n THEN m ELSE Head(ratings)

RECURSIVE min(_)
min(ratings) ==
    IF Len(ratings) = 1 THEN Head(ratings)
    ELSE LET m == min(Tail(ratings))
         IN  IF m.n < Head(ratings).n THEN m ELSE Head(ratings)

\* collections.Counter: a dict value -> count in insertion order, modelled as a
\* sequence of [value, count] entries
CounterUpdate(counter, v) ==
    IF \E i \in 1..Len(counter) : counter[i].value = v
    THEN [i \in 1..Len(counter) |->
            IF counter[i].value = v
            THEN [value |-> v, count |-> counter[i].count + 1]
            ELSE counter[i]]
    ELSE Append(counter, [value |-> v, count |-> 1])

RECURSIVE CounterOf(_)
CounterOf(values) ==
    IF values = <<>> THEN <<>>
    ELSE CounterUpdate(CounterOf(SubSeq(values, 1, Len(values) - 1)),
                       values[Len(values)])

RECURSIVE MaxCount(_)
MaxCount(counter) ==
    IF Len(counter) = 1 THEN Head(counter).count
    ELSE LET m == MaxCount(Tail(counter))
         IN  IF m > Head(counter).count THEN m ELSE Head(counter).count

RECURSIVE Flatten(_)
Flatten(lists) ==
    IF lists = <<>> THEN <<>>
    ELSE Head(lists).l \o Flatten(Tail(lists))

Raised(error) == [ok |-> FALSE, error |-> error]
Stored(x) == [ok |-> TRUE, stored |-> x]

----------------------------------------------------------------------------
(* The reduction of one record: the set of outcomes the loop body can have,  *)
(* Stored(x) when it assigns rec.unified_responses = {field: x}, Raised(e)   *)
(* when it raises e before the assignment.  random.choice makes it a set.    *)

\* _aggregate with a default of 0 for a record without submitted ratings
RatingAggregateRecord_default(tag, rec, field) ==
    LET responses == SubmittedResponses(rec)
    IN  IF ~HasAllValues(responses, field) THEN {Raised("KeyError")}
        ELSE
        LET ratings == FieldValues(responses, field)
            unified_value ==
                IF Len(ratings) = 0 THEN PyInt(0)
                ELSE IF tag = "mean" THEN PyFloat(sum(ratings), Len(ratings))
                ELSE IF tag = "max" THEN max(ratings)
                ELSE min(ratings)
        IN  IF ~ValueSchema_accepts(unified_value)
            THEN {Raised("ValidationError")}
            ELSE {Stored(Single(UnificationValueSchema(unified_value, tag)))}

\* RatingQuestionStrategy._aggregate, the body of the loop
RatingAggregateRecord(tag, rec, field) ==
    LET responses == SubmittedResponses(rec)
    IN  IF ~HasAllValues(responses, field) THEN {Raised("KeyError")}
        ELSE
        LET ratings == FieldValues(responses, field)
            unified_value ==
                IF tag = "mean" THEN
                    IF Len(ratings) = 0 THEN Raised("ZeroDivisionError")
                    ELSE Stored(PyFloat(sum(ratings), Len(ratings)))
                ELSE IF tag = "max" THEN
                    IF Len(ratings) = 0 THEN Raised("ValueError")
                    ELSE Stored(max(ratings))
                ELSE IF tag = "min" THEN
                    IF Len(ratings) = 0 THEN Raised("ValueError")
                    ELSE Stored(min(ratings))
                ELSE Raised("ValueError")
        IN  IF ~unified_value.ok THEN {unified_value}
            ELSE IF ~ValueSchema_accepts(unified_value.stored)
            THEN {Raised("ValidationError")}
            ELSE {Stored(Single(UnificationValueSchema(unified_value.stored, tag)))}

\* most_common_values without the comparison with max_count
MostCommonValues_any(counter) ==
    {counter[i].value : i \in 1..Len(counter)}

\* [value for value, count in counter.items() if count == max_count]
MostCommonValues(counter) ==
    {counter[i].value : i \in {j \in 1..Len(counter) : counter[j].count = MaxCount(counter)}}

\* _majority storing an empty list for a record without submitted responses
MajorityRecord_sentinel(tag, rec, field) ==
    LET responses == SubmittedResponses(rec)
    IN  IF ~HasAllValues(responses, field) THEN {Raised("KeyError")}
        ELSE
        LET counter == CounterOf(FieldValues(responses, field))
        IN  IF counter = <<>> THEN {Stored(ListOf(<<>>))}
            ELSE {Stored(ListOf(<<UnificationValueSchema(majority_value, tag)>>)) :
                    majority_value \in MostCommonValues(counter)}

\* RatingQuestionStrategy._majority and LabelQuestionStrategy._majority, the
\* body of the loop (the two are the same code)
MajorityRecord(tag, rec, field) ==
    LET responses == SubmittedResponses(rec)
    IN  IF ~HasAllValues(responses, field) THEN {Raised("KeyError")}
        ELSE
        LET counter == CounterOf(FieldValues(responses, field))
        IN  IF counter = <<>> THEN {Raised("ValueError")}
            ELSE {Stored(ListOf(<<UnificationValueSchema(majority_value, tag)>>)) :
                    majority_value \in MostCommonValues(counter)}

\* the threshold without the + 1
MajorityThreshold_half(n) == n \div 2

\* int(len(responses) // 2) + 1
MajorityThreshold(n) == (n \div 2) + 1

\* MultiLabelQuestionStrategy._majority, the body of the loop. A value that is
\* not a list is counted once, as the list holding it alone would be.
MultiLabelMajorityRecord(tag, rec, field) ==
    LET responses == SubmittedResponses(rec)
    IN  IF ~HasAllValues(responses, field) THEN {Raised("KeyError")}
        ELSE
        LET counter == CounterOf(Flatten(FieldValues(responses, field)))
            majority == MajorityThreshold(Len(responses))
            accepted == SelectSeq(counter, LAMBDA e : e.count >= majority)
            majority_value == [i \in 1..Len(accepted) |-> accepted[i].value]
        IN  {Stored(Single(UnificationValueSchema(PyList(majority_value), tag)))}

\* _disagreement collecting the values in reverse order
DisagreementRecord_reversed(tag, rec, field) ==
    LET responses == SubmittedResponses(rec)
        n == Len(responses)
    IN  IF ~HasAllValues(responses, field) THEN {Raised("KeyError")}
        ELSE {Stored(ListOf([i \in 1..n |->
                UnificationValueSchema(responses[n + 1 - i].values[field], tag)]))}

\* _disagreement extending the entry an earlier call left in the record
DisagreementRecord_extending(tag, rec, field) ==
    LET responses == SubmittedResponses(rec)
        earlier == IF field \in DOMAIN rec.unified_responses
                   THEN rec.unified_responses[field].items
                   ELSE <<>>
    IN  IF ~HasAllValues(responses, field) THEN {Raised("KeyError")}
        ELSE {Stored(ListOf(earlier \o [i \in 1..Len(responses) |->
                UnificationValueSchema(responses[i].values[field], tag)]))}

\* LabelQuestionStrategyMixin._disagreement, the body of the loop
DisagreementRecord(tag, rec, field) ==
    LET responses == SubmittedResponses(rec)
    IN  IF ~HasAllValues(responses, field) THEN {Raised("KeyError")}
        ELSE {Stored(ListOf([i \in 1..Len(responses) |->
                UnificationValueSchema(responses[i].values[field], tag)]))}

----------------------------------------------------------------------------
(* unify_responses: the whole call *)

\* the field argument of unify_responses: a str or a question object, by name
FieldRefs ==
    [type : {"str"}, name : QuestionNames]
    \cup [type : {"RatingQuestion", "LabelQuestion", "MultiLabelQuestion"},
          name : AnsweredNames]

\* the result of a call
NoResult == [status |-> "none"]
Returned(value) == [status |-> "returned", value |-> value]
RaisedAt(error, i) == [status |-> "raised", error |-> error, at |-> i]

NoCall == [enum |-> "none"]
Call(enum, tag, ref) == [enum |-> enum, tag |-> tag, field |-> ref]

\* the isinstance checks of RatingQuestionStrategy.unify_responses
RatingFieldIsValid(ref) == ref.type \in {"str", "RatingQuestion"}

\* the isinstance checks of LabelQuestionStrategyMixin.unify_responses
LabelFieldIsValid(ref) == ref.type \in {"LabelQuestion", "MultiLabelQuestion", "str"}

\* the method the call dispatches to, applied to one record
RecordOutcomes(enum, tag, rec, field) ==
    IF enum = "RatingQuestionStrategy"
    THEN IF tag = "majority" THEN MajorityRecord(tag, rec, field)
         ELSE RatingAggregateRecord(tag, rec, field)
    ELSE IF tag = "disagreement" THEN DisagreementRecord(tag, rec, field)
    ELSE IF enum = "LabelQuestionStrategy" THEN MajorityRecord(tag, rec, field)
    ELSE MultiLabelMajorityRecord(tag, rec, field)

\* the return statement after the loop of each method
AfterLoop(enum, tag, recs) ==
    IF enum = "RatingQuestionStrategy" THEN Returned("records")
    ELSE IF tag = "disagreement" THEN Returned("unified_records")
    ELSE IF enum = "LabelQuestionStrategy"
    THEN IF Len(recs) = 0 THEN RaisedAt("UnboundLocalError", 0)
         ELSE Returned("rec")
    ELSE Returned("records")

RECURSIVE LoopEffects(_, _, _, _, _)
\* the loop keeping in each record the submitted responses alone
LoopEffects_submitted(enum, tag, field, recs, i) ==
    IF i > Len(recs)
    THEN {[records |-> recs, result |-> AfterLoop(enum, tag, recs)]}
    ELSE UNION {
           IF o.ok
           THEN LoopEffects(enum, tag, field,
                    [recs EXCEPT ![i].unified_responses = [q \in {field} |-> o.stored],
                                 ![i].responses = SubmittedResponses(recs[i])],
                    i + 1)
           ELSE {[records |-> recs, result |-> RaisedAt(o.error, i)]}
           : o \in RecordOutcomes(enum, tag, recs[i], field)}

\* the loop resetting unified_responses of the record it raises on
LoopEffects_resetting(enum, tag, field, recs, i) ==
    IF i > Len(recs)
    THEN {[records |-> recs, result |-> AfterLoop(enum, tag, recs)]}
    ELSE UNION {
           IF o.ok
           THEN LoopEffects(enum, tag, field,
                    [recs EXCEPT ![i].unified_responses = [q \in {field} |-> o.stored]],
                    i + 1)
           ELSE {[records |-> [recs EXCEPT ![i].unified_responses = NoUnifiedResponses],
                  result |-> RaisedAt(o.error, i)]}
           : o \in RecordOutcomes(enum, tag, recs[i], field)}

\* for rec in records: ... rec.unified_responses = {field: ...}, from record i on
LoopEffects(enum, tag, field, recs, i) ==
    IF i > Len(recs)
    THEN {[records |-> recs, result |-> AfterLoop(enum, tag, recs)]}
    ELSE UNION {
           IF o.ok
           THEN LoopEffects(enum, tag, field,
                    [recs EXCEPT ![i].unified_responses = [q \in {field} |-> o.stored]],
                    i + 1)
           ELSE {[records |-> recs, result |-> RaisedAt(o.error, i)]}
           : o \in RecordOutcomes(enum, tag, recs[i], field)}

\* _majority_weighted as a method that does nothing and returns None
MajorityWeighted_noop(recs) ==
    {[records |-> recs, result |-> [status |-> "returned", value |-> "None"]]}

\* LabelQuestionStrategy._majority_weighted, MultiLabelQuestionStrategy._majority_weighted
MajorityWeighted(recs) ==
    {[records |-> recs, result |-> RaisedAt("NotImplementedError", 0)]}

\* RatingQuestionStrategy.unify_responses
RatingUnifyEffects(tag, ref, recs) ==
    IF ~RatingFieldIsValid(ref)
    THEN {[records |-> recs, result |-> RaisedAt("ValueError", 0)]}
    ELSE LoopEffects("RatingQuestionStrategy", tag, ref.name, recs, 1)

\* LabelQuestionStrategyMixin.unify_responses
LabelUnifyEffects(enum, tag, ref, recs) ==
    IF ~LabelFieldIsValid(ref)
    THEN {[records |-> recs, result |-> RaisedAt("ValueError", 0)]}
    ELSE IF tag = "majority_weighted" THEN MajorityWeighted(recs)
    ELSE LoopEffects(enum, tag, ref.name, recs, 1)

----------------------------------------------------------------------------
(* Fields and questions: construction and assignment under pydantic *)

PyNone == [type |-> "NoneType"]

\* a keyword argument the caller left out, or gave
Omitted == [given |-> FALSE]
Given(v) == [given |-> TRUE, v |-> v]

\* the outcome of validating a value, an assignment or a constructor call
Accepted(v) == [ok |-> TRUE, v |-> v]
Rejected(error) == [error |-> error, ok |-> FALSE]

\* the lengths of the lists and dicts a caller passes as values or labels
ListLengths == 0..3
\* the integers a caller passes in RatingQuestion.values
ValueItems == {1, 2, 3}
\* the strings a caller passes in labels: one of one character, two of two
LabelItems == {"x", "ab", "cd"}
\* the keys and the display texts of the dicts a caller passes as labels
LabelKeys == {"a", "c"}
LabelTexts == {"b", "d"}

\* the characters of a label, as iterating the str yields them
Chars(s) ==
    IF s = "ab" THEN <<"a", "b">>
    ELSE IF s = "cd" THEN <<"c", "d">>
    ELSE <<s>>

PyListArg(l) == [form |-> "list", list |-> l]
\* a dict as its items in insertion order
PyDictArg(d) == [form |-> "dict", dict |-> d]

HasDuplicates(l) == \E i, j \in 1..Len(l) : i # j /\ l[i] = l[j]

\* d[key] = v on a dict held as a function over its keys
SetItem(d, key, v) == [k \in DOMAIN d \cup {key} |-> IF k = key THEN v ELSE d[k]]

\* Field(unique_items=True, min_items=2) on a list
conlist(l) ==
    IF Len(l) < 2 THEN Rejected("ValidationError")
    ELSE IF HasDuplicates(l) THEN Rejected("ValidationError")
    ELSE Accepted(l)

\* d[key] = text on a dict held as its items in insertion order
DictSetItem(d, key, text) ==
    IF \E i \in 1..Len(d) : d[i].key = key
    THEN [i \in 1..Len(d) |-> IF d[i].key = key THEN [key |-> key, text |-> text] ELSE d[i]]
    ELSE Append(d, [key |-> key, text |-> text])

\* dict(l) for a list of strs: every element must yield exactly two items
RECURSIVE DictOfPairs(_, _)
DictOfPairs(l, n) ==
    IF n = 0 THEN <<>>
    ELSE DictSetItem(DictOfPairs(l, n - 1), Chars(l[n])[1], Chars(l[n])[2])

\* pydantic's validation of Dict[str, str]: a dict as it is, anything else
\* through dict(v)
dict_validator(v) ==
    IF v.form = "dict" THEN Accepted(v)
    ELSE IF \A i \in 1..Len(v.list) : Len(Chars(v.list[i])) = 2
    THEN Accepted(PyDictArg(DictOfPairs(v.list, Len(v.list))))
    ELSE Rejected("ValidationError")

\* _LabelQuestion.labels_dict_must_be_valid
labels_dict_must_be_valid(v) ==
    IF v.form = "dict"
    THEN IF ~(Len(v.dict) > 1) THEN Rejected("ValidationError")
         ELSE IF HasDuplicates([i \in 1..Len(v.dict) |-> v.dict[i].text])
         THEN Rejected("ValidationError")
         ELSE Accepted(v)
    ELSE Accepted(v)

\* the field labels: the members of its Union in order, then its validator
labels_field(v) ==
    IF v.form = "list" /\ conlist(v.list).ok THEN labels_dict_must_be_valid(v)
    ELSE IF dict_validator(v).ok THEN labels_dict_must_be_valid(dict_validator(v).v)
    ELSE Rejected("ValidationError")

\* the field visible_labels: Optional[conint(ge=3)] = 20
visible_labels_field(arg) ==
    IF ~arg.given THEN Accepted(PyInt(20))
    ELSE IF arg.v = PyNone THEN Accepted(PyNone)
    ELSE IF arg.v.n >= 3 THEN Accepted(arg.v)
    ELSE Rejected("ValidationError")

\* the default of the field settings in each class
DefaultSettings(class) ==
    IF class = "TextField" THEN [type |-> "text"]
    ELSE IF class = "TextQuestion" THEN [type |-> "text", use_markdown |-> FALSE]
    ELSE IF class = "RatingQuestion" THEN [type |-> "rating"]
    ELSE IF class = "LabelQuestion" THEN [type |-> "label_selection"]
    ELSE [type |-> "multi_label_selection"]

\* the classes whose field settings is declared with allow_mutation=False
SettingsImmutable(class) == class \in {"TextField", "TextQuestion", "RatingQuestion"}

\* update_settings keeping a key the settings already hold
update_settings_setdefault(obj) ==
    LET SetDefault(d, key, v) == IF key \in DOMAIN d THEN d ELSE SetItem(d, key, v)
    IN
    IF obj.class \in {"TextField", "TextQuestion"}
    THEN SetDefault(obj.settings, "use_markdown", obj.use_markdown)
    ELSE IF obj.class = "RatingQuestion"
    THEN SetDefault(obj.settings, "options",
                    [i \in 1..Len(obj.values) |-> [value |-> obj.values[i]]])
    ELSE LET options ==
                IF obj.labels.form = "dict"
                THEN [i \in 1..Len(obj.labels.dict) |->
                        [text |-> obj.labels.dict[i].text, value |-> obj.labels.dict[i].key]]
                ELSE [i \in 1..Len(obj.labels.list) |->
                        [text |-> obj.labels.list[i], value |-> obj.labels.list[i]]]
         IN  SetDefault(SetDefault(obj.settings, "options", options),
                        "visible_options", obj.visible_labels)

\* the root validator update_settings of each class: the settings it leaves
update_settings(obj) ==
    IF obj.class \in {"TextField", "TextQuestion"}
    THEN SetItem(obj.settings, "use_markdown", obj.use_markdown)
    ELSE IF obj.class = "RatingQuestion"
    THEN SetItem(obj.settings, "options",
                 [i \in 1..Len(obj.values) |-> [value |-> obj.values[i]]])
    ELSE LET options ==
                IF obj.labels.form = "dict"
                THEN [i \in 1..Len(obj.labels.dict) |->
                        [text |-> obj.labels.dict[i].text, value |-> obj.labels.dict[i].key]]
                ELSE [i \in 1..Len(obj.labels.list) |->
                        [text |-> obj.labels.list[i], value |-> obj.labels.list[i]]]
         IN  SetItem(SetItem(obj.settings, "options", options),
                     "visible_options", obj.visible_labels)

\* the object with the settings its root validator leaves
WithSettings(obj) == [obj EXCEPT !.settings = update_settings(obj)]

\* the settings a constructor starts from: the caller's, or the default
InitialSettings(class, arg) == IF arg.given THEN arg.v ELSE DefaultSettings(class)

\* TextField(...) and TextQuestion(...)
TextSchema(class, use_markdown, settings) ==
    Accepted(WithSettings(
        [class |-> class,
         settings |-> InitialSettings(class, settings),
         settings_set |-> settings.given,
         use_markdown |-> IF use_markdown.given THEN use_markdown.v ELSE FALSE]))

\* RatingQuestion(values=..., settings=...)
RatingQuestion(values, settings) ==
    IF ~conlist(values).ok THEN Rejected("ValidationError")
    ELSE Accepted(WithSettings(
            [class |-> "RatingQuestion",
             settings |-> InitialSettings("RatingQuestion", settings),
             settings_set |-> settings.given,
             values |-> values]))

\* LabelQuestion(labels=..., visible_labels=..., settings=...) and
\* MultiLabelQuestion(...)
LabelQuestionSchema(class, labels, visible_labels, settings) ==
    IF ~labels_field(labels).ok \/ ~visible_labels_field(visible_labels).ok
    THEN Rejected("ValidationError")
    ELSE Accepted(WithSettings(
            [class |-> class,
             labels |-> labels_field(labels).v,
             settings |-> InitialSettings(class, settings),
             settings_set |-> settings.given,
             visible_labels |-> visible_labels_field(visible_labels).v]))

\* BaseModel.__setattr__ under validate_assignment: the allow_mutation test,
\* the validation of the field, the root validator, then the new __dict__
SetAttr(obj, name, value) ==
    IF name = "settings"
    THEN IF SettingsImmutable(obj.class) THEN Rejected("TypeError")
         ELSE Accepted(WithSettings([obj EXCEPT !.settings = value, !.settings_set = TRUE]))
    ELSE IF name = "values"
    THEN IF ~conlist(value).ok THEN Rejected("ValidationError")
         ELSE Accepted(WithSettings([obj EXCEPT !.values = value]))
    ELSE IF name = "labels"
    THEN IF ~labels_field(value).ok THEN Rejected("ValidationError")
         ELSE Accepted(WithSettings([obj EXCEPT !.labels = labels_field(value).v]))
    ELSE IF name = "visible_labels"
    THEN IF ~visible_labels_field(Given(value)).ok THEN Rejected("ValidationError")
         ELSE Accepted(WithSettings([obj EXCEPT !.visible_labels = value]))
    ELSE Accepted(WithSettings([obj EXCEPT !.use_markdown = value]))

\* the settings dict a caller writes
CustomSettings(type) == [type |-> type]

\* a keyword argument over the values vs: left out, or one of them
Optional(vs) == {Omitted} \cup {Given(v) : v \in vs}

\* the lists over the items given, of every length of ListLengths
Lists(items) == UNION {SeqsOfLen(items, n) : n \in ListLengths}

\* the dicts from the keys to the texts given, as items in insertion order
Dicts(keys, texts) ==
    {d \in UNION {SeqsOfLen([key : keys, text : texts], n) : n \in 0..Cardinality(keys)} :
        ~HasDuplicates([i \in 1..Len(d) |-> d[i].key])}

\* the values a caller passes as labels: a list of strs or a dict
LabelsValues(items, keys, texts) ==
    {PyListArg(l) : l \in Lists(items)} \cup {PyDictArg(d) : d \in Dicts(keys, texts)}

\* the values a caller passes as visible_labels: None, or one of the ints
VisibleLabelsInts == {2, 3, 30}
VisibleLabelsValues(ints) == {PyNone} \cup {PyInt(n) : n \in ints}

\* the keyword arguments of the constructor of each class
ConstructorArgs(class) ==
    IF class \in {"TextField", "TextQuestion"}
    THEN [settings : Optional({CustomSettings("custom")}),
          use_markdown : Optional(BOOLEAN)]
    ELSE IF class = "RatingQuestion"
    THEN [settings : Optional({CustomSettings("custom")}),
          values : Lists(ValueItems)]
    ELSE [labels : LabelsValues(LabelItems, LabelKeys, LabelTexts),
          settings : Optional({CustomSettings("custom")}),
          visible_labels : Optional(VisibleLabelsValues(VisibleLabelsInts))]

\* the fields of each class a caller may assign, with the values it assigns
Assignable(class) ==
    [name : {"settings"}, value : {CustomSettings("custom")}]
    \cup (IF class \in {"TextField", "TextQuestion"}
          THEN [name : {"use_markdown"}, value : BOOLEAN]
          ELSE IF class = "RatingQuestion"
          THEN [name : {"values"}, value : Lists(ValueItems)]
          ELSE [name : {"labels"}, value : LabelsValues(LabelItems, LabelKeys, LabelTexts)]
               \cup [name : {"visible_labels"},
                     value : VisibleLabelsValues(VisibleLabelsInts)])

\* a constructor call and an assignment, as the variable call holds them
Construction(class, args) == [args |-> args, enum |-> class, op |-> "__init__"]
Assignment(class, name, value) ==
    [enum |-> class, name |-> name, op |-> "__setattr__", value |-> value]

\* the history of repeated calls after call c, where it is kept
Repeats(c) ==
    IF repeated = "off" THEN "off"
    ELSE IF c = call THEN "yes"
    ELSE "no"

\* no schema object was constructed
NoObject == [class |-> "none"]

\* the server's table of responses without rows
NoRows == <<>>

----------------------------------------------------------------------------
(* The state machine *)

Init ==
    /\ qtype \in {"rating", "label", "multi_label"}
    /\ records \in UNION {Collections(qtype, n, MaxResponses) : n \in CollectionSizes}
    /\ call = NoCall
    /\ result = NoResult
    /\ repeated = "off"
    /\ object = NoObject
    /\ db = NoRows

\* RatingQuestionStrategy.<member>.unify_responses(records, field)
RatingQuestionStrategy_unify_responses ==
    /\ qtype = "rating"
    /\ \E tag \in RatingTags, ref \in FieldRefs :
        \E e \in RatingUnifyEffects(tag, ref, records) :
            /\ records' = e.records
            /\ result' = e.result
            /\ call' = Call("RatingQuestionStrategy", tag, ref)
            /\ repeated' = Repeats(Call("RatingQuestionStrategy", tag, ref))
    /\ UNCHANGED <<db, qtype, object>>

\* LabelQuestionStrategy.<member>.unify_responses(records, field)
LabelQuestionStrategy_unify_responses ==
    /\ qtype = "label"
    /\ \E tag \in LabelTags, ref \in FieldRefs :
        \E e \in LabelUnifyEffects("LabelQuestionStrategy", tag, ref, records) :
            /\ records' = e.records
            /\ result' = e.result
            /\ call' = Call("LabelQuestionStrategy", tag, ref)
            /\ repeated' = Repeats(Call("LabelQuestionStrategy", tag, ref))
    /\ UNCHANGED <<db, qtype, object>>

\* MultiLabelQuestionStrategy.<member>.unify_responses(records, field)
MultiLabelQuestionStrategy_unify_responses ==
    /\ qtype = "multi_label"
    /\ \E tag \in LabelTags, ref \in FieldRefs :
        \E e \in LabelUnifyEffects("MultiLabelQuestionStrategy", tag, ref, records) :
            /\ records' = e.records
            /\ result' = e.result
            /\ call' = Call("MultiLabelQuestionStrategy", tag, ref)
            /\ repeated' = Repeats(Call("MultiLabelQuestionStrategy", tag, ref))
    /\ UNCHANGED <<db, qtype, object>>

Next ==
    \/ RatingQuestionStrategy_unify_responses
    \/ LabelQuestionStrategy_unify_responses
    \/ MultiLabelQuestionStrategy_unify_responses

Spec == Init /\ [][Next]_vars

\* the same calls over smaller collections, with the history of repeated calls
InitRepeat ==
    /\ qtype \in {"rating", "label", "multi_label"}
    /\ records \in UNION {Collections(qtype, n, MaxResponses - 1) : n \in CollectionSizes}
    /\ call = NoCall
    /\ result = NoResult
    /\ repeated = "no"
    /\ object = NoObject
    /\ db = NoRows

SpecRepeat == InitRepeat /\ [][Next]_vars

----------------------------------------------------------------------------
(* Constructing fields and questions, and assigning to their attributes *)

InitSchema ==
    /\ qtype = "rating"
    /\ records = <<>>
    /\ call = NoCall
    /\ result = NoResult
    /\ repeated = "off"
    /\ object = NoObject
    /\ db = NoRows

\* a constructor call c ended with the outcome given: the object, or an error.
\* A run follows one object: the constructors run while none is held, and what
\* they produce does not depend on the state they are called in.
Constructed(c, outcome) ==
    /\ call' = c
    /\ IF outcome.ok
       THEN object' = outcome.v /\ result' = Returned("object")
       ELSE object' = NoObject /\ result' = RaisedAt(outcome.error, 0)

\* TextField(name=..., use_markdown=..., settings=...)
TextField_init ==
    /\ object = NoObject
    /\ \E args \in ConstructorArgs("TextField") :
           Constructed(Construction("TextField", args),
                       TextSchema("TextField", args.use_markdown, args.settings))
    /\ UNCHANGED <<db, qtype, records, repeated>>

\* TextQuestion(name=..., use_markdown=..., settings=...)
TextQuestion_init ==
    /\ object = NoObject
    /\ \E args \in ConstructorArgs("TextQuestion") :
           Constructed(Construction("TextQuestion", args),
                       TextSchema("TextQuestion", args.use_markdown, args.settings))
    /\ UNCHANGED <<db, qtype, records, repeated>>

\* RatingQuestion(name=..., values=..., settings=...)
RatingQuestion_init ==
    /\ object = NoObject
    /\ \E args \in ConstructorArgs("RatingQuestion") :
           Constructed(Construction("RatingQuestion", args),
                       RatingQuestion(args.values, args.settings))
    /\ UNCHANGED <<db, qtype, records, repeated>>

\* LabelQuestion(name=..., labels=..., visible_labels=..., settings=...)
LabelQuestion_init ==
    /\ object = NoObject
    /\ \E args \in ConstructorArgs("LabelQuestion") :
           Constructed(Construction("LabelQuestion", args),
                       LabelQuestionSchema("LabelQuestion", args.labels,
                                           args.visible_labels, args.settings))
    /\ UNCHANGED <<db, qtype, records, repeated>>

\* MultiLabelQuestion(name=..., labels=..., visible_labels=..., settings=...)
MultiLabelQuestion_init ==
    /\ object = NoObject
    /\ \E args \in ConstructorArgs("MultiLabelQuestion") :
           Constructed(Construction("MultiLabelQuestion", args),
                       LabelQuestionSchema("MultiLabelQuestion", args.labels,
                                           args.visible_labels, args.settings))
    /\ UNCHANGED <<db, qtype, records, repeated>>

SchemaClasses ==
    {"TextField", "TextQuestion", "RatingQuestion", "LabelQuestion", "MultiLabelQuestion"}

\* object.<name> = value on the field or question last constructed
Schema_setattr ==
    /\ object.class \in SchemaClasses
    /\ \E a \in Assignable(object.class) :
        LET outcome == SetAttr(object, a.name, a.value)
        IN  /\ call' = Assignment(object.class, a.name, a.value)
            /\ IF outcome.ok
               THEN object' = outcome.v /\ result' = Returned("None")
               ELSE object' = object /\ result' = RaisedAt(outcome.error, 0)
    /\ UNCHANGED <<db, qtype, records, repeated>>

NextSchema ==
    \/ TextField_init
    \/ TextQuestion_init
    \/ RatingQuestion_init
    \/ LabelQuestion_init
    \/ MultiLabelQuestion_init
    \/ Schema_setattr

SpecSchema == InitSchema /\ [][NextSchema]_vars

----------------------------------------------------------------------------
(* Unifications: a question bound to a strategy, and the training data *)

\* a member of a strategy enum
Member(enum, tag) == [enum |-> enum, tag |-> tag]

\* the values of the members of each strategy enum
TagsOf(enum) == IF enum = "RatingQuestionStrategy" THEN RatingTags ELSE LabelTags

StrategyEnums == {"RatingQuestionStrategy", "LabelQuestionStrategy", "MultiLabelQuestionStrategy"}

\* the questions of the dataset, all named "q1", as a caller constructed them
DatasetQuestion(class) ==
    IF class = "RatingQuestion" THEN RatingQuestion(<<1, 2>>, Omitted).v
    ELSE IF class = "TextQuestion" THEN TextSchema(class, Omitted, Omitted).v
    ELSE LabelQuestionSchema(class, PyListArg(<<"x", "y">>), Omitted, Omitted).v

QuestionClasses == {"TextQuestion", "RatingQuestion", "LabelQuestion", "MultiLabelQuestion"}

\* the keyword arguments of the constructors of the unifications: a question
\* and, left out or given, a str or a member of one of the enums as strategy
UnificationArgs(enums) ==
    {[question |-> DatasetQuestion(class), strategy |-> strategy] :
        class \in QuestionClasses,
        strategy \in Optional({PyStr(tag) : tag \in RatingTags \cup LabelTags}
                              \cup UNION {{Member(e, tag) : tag \in TagsOf(e)} : e \in enums})}

\* pydantic's validation of a value against a model class: an instance of the
\* class as it is, any other object through cls(**dict(value))
ValidateModel(class, value) ==
    IF value.class = class THEN Accepted(value)
    ELSE IF class \in {"LabelQuestion", "MultiLabelQuestion"}
            /\ value.class \in {"LabelQuestion", "MultiLabelQuestion"}
    THEN LabelQuestionSchema(class, value.labels, Given(value.visible_labels),
                             Given(value.settings))
    ELSE Rejected("ValidationError")

\* pydantic's validation of a value against an enum class
ValidateEnum(enum, value) ==
    IF "enum" \in DOMAIN value /\ value.enum = enum THEN Accepted(value)
    ELSE Rejected("ValidationError")

\* <enum>(v) for a str v
EnumOfValue(enum, v) ==
    IF v \in TagsOf(enum) THEN Accepted(Member(enum, v)) ELSE Rejected("ValidationError")

IsStr(value) == "type" \in DOMAIN value /\ value.type = "str"

\* RatingQuestionUnification(question=..., strategy=...)
RatingQuestionUnification(question, strategy) ==
    LET q == ValidateModel("RatingQuestion", question)
        given == IF strategy.given THEN strategy.v ELSE PyStr("mean")
        \* Union[str, RatingQuestionStrategy], then strategy_must_be_valid
        st == IF IsStr(given) THEN EnumOfValue("RatingQuestionStrategy", given.s)
              ELSE ValidateEnum("RatingQuestionStrategy", given)
    IN  IF ~q.ok \/ ~st.ok THEN Rejected("ValidationError")
        ELSE Accepted([class |-> "RatingQuestionUnification",
                       question |-> q.v, strategy |-> st.v])

\* LabelQuestionUnification(question=..., strategy=...)
LabelQuestionUnification(question, strategy) ==
    LET \* Union[LabelQuestion, MultiLabelQuestion], its members in order
        q == IF ValidateModel("LabelQuestion", question).ok
             THEN ValidateModel("LabelQuestion", question)
             ELSE ValidateModel("MultiLabelQuestion", question)
        given == IF strategy.given THEN strategy.v ELSE PyStr("majority")
        \* Union[str, LabelQuestionStrategy, MultiLabelQuestionStrategy]
        st == IF IsStr(given) THEN Accepted(given)
              ELSE IF ValidateEnum("LabelQuestionStrategy", given).ok
              THEN ValidateEnum("LabelQuestionStrategy", given)
              ELSE ValidateEnum("MultiLabelQuestionStrategy", given)
        \* strategy = values.get("strategy", "majority")
        v == IF st.ok THEN st.v ELSE PyStr("majority")
        \* strategy_must_be_valid_and_align_with_question
        own == IF q.v.class = "LabelQuestion" THEN "LabelQuestionStrategy"
               ELSE "MultiLabelQuestionStrategy"
        aligned == IF IsStr(v) THEN EnumOfValue(own, v.s)
                   ELSE IF v.enum # own THEN Rejected("ValidationError")
                   ELSE Accepted(v)
    IN  IF ~q.ok THEN Rejected("KeyError")
        ELSE IF ~st.ok \/ ~aligned.ok THEN Rejected("ValidationError")
        ELSE Accepted([class |-> "LabelQuestionUnification",
                       question |-> q.v, strategy |-> aligned.v])

UnificationClasses == {"RatingQuestionUnification", "LabelQuestionUnification"}

\* the field argument TrainingDataForTextClassification passes: its question
QuestionRef(question) == [type |-> question.class, name |-> "q1"]

\* what the strategy of a unification does when it is called with the
\* unification's question over the records
ReduceEffects(unification, recs) ==
    IF unification.strategy.enum = "RatingQuestionStrategy"
    THEN RatingUnifyEffects(unification.strategy.tag, QuestionRef(unification.question), recs)
    ELSE LabelUnifyEffects(unification.strategy.enum, unification.strategy.tag,
                           QuestionRef(unification.question), recs)

\* TrainingDataForTextClassification.unify_responses: the call names a
\* keyword argument, responses, that no unify_responses of a strategy has
TrainingDataUnifyEffects(unification, recs) ==
    {[records |-> recs, result |-> RaisedAt("TypeError", 0)]}

----------------------------------------------------------------------------
(* Vocabulary of the properties *)

Called(enum, tags) == call.enum = enum /\ call.tag \in tags

\* the call named a field the strategy accepts: a str or a question object
FieldAccepted ==
    IF call.enum = "RatingQuestionStrategy"
    THEN call.field.type \in {"str", "RatingQuestion"}
    ELSE call.field.type \in {"str", "LabelQuestion", "MultiLabelQuestion"}

\* the loop of the last call went through record i without raising
Handled(i) ==
    \/ result.status = "returned"
    \/ result.status = "raised" /\ result.at > i

RECURSIVE OnlySubmitted(_)
OnlySubmitted(rs) ==
    IF rs = <<>> THEN <<>>
    ELSE IF Head(rs).status = "discarded" THEN OnlySubmitted(Tail(rs))
    ELSE <<Head(rs)>> \o OnlySubmitted(Tail(rs))

\* the record without its discarded responses
WithoutDiscarded(rec) == [rec EXCEPT !.responses = OnlySubmitted(rec.responses)]

\* the values the submitted responses of record i give for field f, in order;
\* defined when Answered(i, f)
Answered(i, f) ==
    \A k \in 1..Len(records[i].responses) :
        records[i].responses[k].status = "submitted"
            => f \in DOMAIN records[i].responses[k].values
SubmittedValues(i, f) ==
    LET rs == OnlySubmitted(records[i].responses)
    IN  [k \in 1..Len(rs) |-> rs[k].values[f]]

\* records 1..i all have a submitted value for f, so no reduction before or at
\* record i runs on an empty collection or a missing key
ReducibleUpTo(i, f) ==
    \A j \in 1..i : Answered(j, f) /\ Len(SubmittedValues(j, f)) > 0

\* the entry the call assigned to record i
Written(i) == records[i].unified_responses[call.field.name]
HasEntry(i) == call.field.name \in DOMAIN records[i].unified_responses

----------------------------------------------------------------------------
(* C1: what a completed reduction writes to unified_responses[field] is       *)
(* computed from the submitted responses alone: the outcomes of a record are  *)
(* those of the same record without its discarded responses, the written      *)
(* value is one of them, and no call removes or changes a response.           *)

C1_WrittenFromSubmitted ==
    (call.enum # "none" /\ FieldAccepted /\ call.tag # "majority_weighted") =>
        \A i \in 1..Len(records) :
            LET f == call.field.name
                onSubmitted == RecordOutcomes(call.enum, call.tag,
                                              WithoutDiscarded(records[i]), f)
            IN  /\ RecordOutcomes(call.enum, call.tag, records[i], f) = onSubmitted
                /\ Handled(i) =>
                     \E o \in onSubmitted :
                        /\ o.ok
                        /\ records[i].unified_responses = [q \in {f} |-> o.stored]

C1_ResponsesKept ==
    /\ Len(records') = Len(records)
    /\ \A i \in 1..Len(records) : records'[i].responses = records[i].responses

C1_DiscardedIgnored == []C1_WrittenFromSubmitted /\ [][C1_ResponsesKept]_vars

\* max returned over a record whose discarded rating exceeds every submitted one
C1_Witness ==
    /\ Called("RatingQuestionStrategy", {"max"})
    /\ result.status = "returned"
    /\ \E i \in 1..Len(records) :
        /\ \E k \in 1..Len(records[i].responses) :
              /\ records[i].responses[k].status = "discarded"
              /\ "q1" \in DOMAIN records[i].responses[k].values
              /\ records[i].responses[k].values["q1"] = PyInt(2)
        /\ HasEntry(i)
        /\ Written(i).items[1].value = PyInt(1)

----------------------------------------------------------------------------
(* C2: RatingQuestionStrategy max (min) stores, for a record whose submitted  *)
(* responses give the ratings R (not empty), one UnificationValueSchema, not  *)
(* in a list, whose value is a member of R that no member of R exceeds (is    *)
(* below).                                                                    *)

C2_MaxMinOfSubmitted ==
    (Called("RatingQuestionStrategy", {"max", "min"}) /\ FieldAccepted) =>
        \A i \in 1..Len(records) :
            ReducibleUpTo(i, call.field.name) =>
                LET R == SubmittedValues(i, call.field.name)
                IN  /\ Handled(i)
                    /\ DOMAIN records[i].unified_responses = {call.field.name}
                    /\ Written(i).shape = "single"
                    /\ \E k \in 1..Len(R) : Written(i).items[1].value = R[k]
                    /\ \A k \in 1..Len(R) :
                          IF call.tag = "max"
                          THEN R[k].n <= Written(i).items[1].value.n
                          ELSE R[k].n >= Written(i).items[1].value.n

\* max over the submitted ratings 1 and 2 stored 2, min stored 1
C2_Witness ==
    /\ Called("RatingQuestionStrategy", {"max"})
    /\ result.status = "returned"
    /\ \E i \in 1..Len(records) :
        /\ Len(SubmittedValues(i, "q1")) = 2
        /\ SubmittedValues(i, "q1")[1] = PyInt(2)
        /\ SubmittedValues(i, "q1")[2] = PyInt(1)
        /\ HasEntry(i)
        /\ Written(i) = Single(UnificationValueSchema(PyInt(2), "max"))

----------------------------------------------------------------------------
(* C3: RatingQuestionStrategy mean completes on a record whose submitted      *)
(* responses give the ratings r1..rN (N > 0) and stores one                   *)
(* UnificationValueSchema v with v * N = r1 + ... + rN.                       *)

RECURSIVE SumOf(_)
SumOf(R) == IF R = <<>> THEN 0 ELSE R[1].n + SumOf(Tail(R))

C3_MeanStored ==
    (Called("RatingQuestionStrategy", {"mean"}) /\ FieldAccepted) =>
        \A i \in 1..Len(records) :
            ReducibleUpTo(i, call.field.name) =>
                LET R == SubmittedValues(i, call.field.name)
                IN  /\ Handled(i)
                    /\ HasEntry(i)
                    /\ Written(i).shape = "single"
                    /\ LET v == Written(i).items[1].value
                       IN  \/ v.type = "float" /\ v.num * Len(R) = SumOf(R) * v.den
                           \/ v.type = "int" /\ v.n * Len(R) = SumOf(R)

----------------------------------------------------------------------------
(* C4: rating majority and single-label majority store, for a record with at  *)
(* least one submitted response, a one-element list whose value is given by   *)
(* a submitted response and has the largest frequency among the submitted     *)
(* values of the record.                                                      *)

Count(v, R) == Cardinality({k \in 1..Len(R) : R[k] = v})

C4_MajorityIsMostFrequent ==
    (/\ call.enum \in {"RatingQuestionStrategy", "LabelQuestionStrategy"}
     /\ call.tag = "majority"
     /\ FieldAccepted) =>
        \A i \in 1..Len(records) :
            ReducibleUpTo(i, call.field.name) =>
                LET R == SubmittedValues(i, call.field.name)
                IN  /\ Handled(i)
                    /\ DOMAIN records[i].unified_responses = {call.field.name}
                    /\ Written(i).shape = "list"
                    /\ Len(Written(i).items) = 1
                    /\ LET v == Written(i).items[1].value
                       IN  /\ Count(v, R) >= 1
                           /\ \A k \in 1..Len(R) : Count(R[k], R) <= Count(v, R)

\* the labels y, x, x gave x, the value of the larger count
C4_Witness ==
    /\ Called("LabelQuestionStrategy", {"majority"})
    /\ result.status = "returned"
    /\ \E i \in 1..Len(records) :
        /\ SubmittedValues(i, "q1") = <<PyStr("y"), PyStr("x"), PyStr("x")>>
        /\ HasEntry(i)
        /\ Written(i).items[1].value = PyStr("x")

----------------------------------------------------------------------------
(* C5: multi-label majority stores, for a record with N submitted responses,  *)
(* one UnificationValueSchema wrapping the list of the labels whose frequency *)
(* over the submitted responses is at least N \div 2 + 1, and no other label. *)

Occurrences(label, R) ==
    Cardinality(UNION {{<<k, p>> : p \in {q \in 1..Len(R[k].l) : R[k].l[q] = label}}
                        : k \in 1..Len(R)})

C5_Threshold ==
    (Called("MultiLabelQuestionStrategy", {"majority"}) /\ FieldAccepted) =>
        \A i \in 1..Len(records) :
            (\A j \in 1..i : Answered(j, call.field.name)) =>
                LET R == SubmittedValues(i, call.field.name)
                IN  /\ Handled(i)
                    /\ DOMAIN records[i].unified_responses = {call.field.name}
                    /\ Written(i).shape = "single"
                    /\ Written(i).items[1].value.type = "list"
                    /\ \A label \in Labels :
                          (\E p \in 1..Len(Written(i).items[1].value.l) :
                                Written(i).items[1].value.l[p] = label)
                          <=> Occurrences(label, R) >= (Len(R) \div 2) + 1

\* of three submitted responses x is chosen by all and y by one: x alone is accepted
C5_Witness ==
    /\ Called("MultiLabelQuestionStrategy", {"majority"})
    /\ result.status = "returned"
    /\ \E i \in 1..Len(records) :
        /\ SubmittedValues(i, "q1")
              = <<PyList(<<"x", "y">>), PyList(<<"x">>), PyList(<<"x">>)>>
        /\ HasEntry(i)
        /\ Written(i).items[1].value = PyList(<<"x">>)

----------------------------------------------------------------------------
(* C6: RatingQuestionStrategy mean, max and min raise on a record without a   *)
(* submitted response and leave its unified_responses as it was: the call     *)
(* raises at that record or before it, max and min raise at the first such    *)
(* record when the records before it have submitted ratings.                  *)

NoSubmitted(rec) == OnlySubmitted(rec.responses) = <<>>

C6_Step ==
    \A i \in 1..Len(records) :
        (/\ call'.enum = "RatingQuestionStrategy"
         /\ call'.tag \in {"mean", "max", "min"}
         /\ FieldAccepted'
         /\ NoSubmitted(records[i])) =>
            /\ result'.status = "raised"
            /\ result'.at >= 1
            /\ result'.at <= i
            /\ result'.at = i => result'.error \in {"ZeroDivisionError", "ValueError"}
            /\ (call'.tag \in {"max", "min"} /\ ReducibleUpTo(i - 1, call'.field.name))
                  => result'.at = i
            /\ records'[i].unified_responses = records[i].unified_responses

C6_AggregateRaisesOnEmpty == [][C6_Step]_vars

\* max raised at the second record, which has only a discarded response
C6_Witness ==
    /\ Called("RatingQuestionStrategy", {"max"})
    /\ call.field.name = "q1"
    /\ result.status = "raised"
    /\ result.at = 2
    /\ result.error = "ValueError"
    /\ Len(records) = 2
    /\ Len(records[2].responses) = 1
    /\ NoSubmitted(records[2])
    /\ records[2].unified_responses = NoUnifiedResponses
    /\ records[1].unified_responses # NoUnifiedResponses

----------------------------------------------------------------------------
(* C7: majority over a record without a submitted response raises in every    *)
(* family (rating, single-label, multi-label) instead of storing a result.    *)

C7_MajorityRaisesOnEmpty ==
    \A i \in 1..Len(records) :
        (/\ call.enum # "none"
         /\ call.tag = "majority"
         /\ FieldAccepted
         /\ NoSubmitted(records[i])) =>
            /\ result.status = "raised"
            /\ result.at <= i

\* C7 as amended: rating majority and single-label majority raise (ValueError
\* at the record, or an error at a record before it) on a record without a
\* submitted response; multi-label majority does not raise on such a record: it
\* stores one UnificationValueSchema wrapping the empty list.
C7_MajorityOnEmpty ==
    \A i \in 1..Len(records) :
        (/\ call.enum # "none"
         /\ call.tag = "majority"
         /\ FieldAccepted
         /\ NoSubmitted(records[i])) =>
            IF call.enum \in {"RatingQuestionStrategy", "LabelQuestionStrategy"}
            THEN /\ result.status = "raised"
                 /\ result.at >= 1
                 /\ result.at <= i
                 /\ result.at = i => result.error = "ValueError"
                 /\ ReducibleUpTo(i - 1, call.field.name) => result.at = i
            ELSE (\A j \in 1..i : Answered(j, call.field.name)) =>
                    /\ Handled(i)
                    /\ HasEntry(i)
                    /\ Written(i).shape = "single"
                    /\ Written(i).items[1].value = PyList(<<>>)

\* single-label majority wrote the first record and raised ValueError at the
\* second, which has only a discarded response
C7_Witness ==
    /\ Called("LabelQuestionStrategy", {"majority"})
    /\ call.field.name = "q1"
    /\ result.status = "raised"
    /\ result.error = "ValueError"
    /\ result.at = 2
    /\ Len(records) = 2
    /\ Len(records[2].responses) = 1
    /\ NoSubmitted(records[2])
    /\ records[1].unified_responses # NoUnifiedResponses

----------------------------------------------------------------------------
(* C8: every unify_responses call that completes returns the record           *)
(* collection it was given: the same records in the same order.               *)

\* the list a completed call returned, for the calls that returned a list
ReturnedList ==
    IF result.value = "records" THEN records ELSE <<>>

C8_ReturnsSameCollection ==
    result.status = "returned" =>
        /\ result.value \in {"records", "unified_records"}
        /\ ReturnedList = records

----------------------------------------------------------------------------
(* C9: disagreement stores, for a record with k submitted responses, a list   *)
(* of k UnificationValueSchema, the i-th carrying the value of the i-th       *)
(* submitted response; the list is empty when k = 0.                          *)

C9_Disagreement ==
    (/\ call.enum \in {"LabelQuestionStrategy", "MultiLabelQuestionStrategy"}
     /\ call.tag = "disagreement"
     /\ FieldAccepted) =>
        \A i \in 1..Len(records) :
            (\A j \in 1..i : Answered(j, call.field.name)) =>
                LET R == SubmittedValues(i, call.field.name)
                IN  /\ Handled(i)
                    /\ DOMAIN records[i].unified_responses = {call.field.name}
                    /\ Written(i).shape = "list"
                    /\ Len(Written(i).items) = Len(R)
                    /\ \A k \in 1..Len(R) : Written(i).items[k].value = R[k]

\* two submitted labels y, x around a discarded one are stored as y, x
C9_Witness ==
    /\ Called("LabelQuestionStrategy", {"disagreement"})
    /\ result.status = "returned"
    /\ \E i \in 1..Len(records) :
        /\ Len(records[i].responses) = 3
        /\ records[i].responses[2].status = "discarded"
        /\ SubmittedValues(i, "q1") = <<PyStr("y"), PyStr("x")>>
        /\ HasEntry(i)
        /\ Len(Written(i).items) = 2
        /\ Written(i).items[1].value = PyStr("y")
        /\ Written(i).items[2].value = PyStr("x")

----------------------------------------------------------------------------
(* C10: unify_responses of the majority_weighted member of either label enum, *)
(* given a field it accepts, raises NotImplementedError and leaves every      *)
(* record, its unified_responses included, as it was.                         *)

C10_Step ==
    (/\ call'.enum \in {"LabelQuestionStrategy", "MultiLabelQuestionStrategy"}
     /\ call'.tag = "majority_weighted"
     /\ FieldAccepted') =>
        /\ result'.status = "raised"
        /\ result'.error = "NotImplementedError"
        /\ records' = records

C10_MajorityWeightedRaises == [][C10_Step]_vars

\* majority_weighted raised over a record that an earlier call had unified
C10_Witness ==
    /\ Called("MultiLabelQuestionStrategy", {"majority_weighted"})
    /\ FieldAccepted
    /\ result.status = "raised"
    /\ result.error = "NotImplementedError"
    /\ \E i \in 1..Len(records) : records[i].unified_responses # NoUnifiedResponses

----------------------------------------------------------------------------
(* C11: a call for question A writes only the entry of A: every entry a
   record held for another question before the call is still there, with the
   same content, after it *)
C11_Step ==
    \A i \in 1..Len(records) :
        \A name \in DOMAIN records[i].unified_responses :
            name # call'.field.name =>
                /\ i \in 1..Len(records')
                /\ name \in DOMAIN records'[i].unified_responses
                /\ records'[i].unified_responses[name] = records[i].unified_responses[name]

C11_OtherEntriesKept == [][C11_Step]_vars

----------------------------------------------------------------------------
(* C12: when the same member is invoked again for the same field over the
   same records, whose responses nothing changes, every record holds after the
   second call the unified_responses it held after the first *)
C12_Step ==
    (call' = call) =>
        \A i \in 1..Len(records) :
            records'[i].unified_responses = records[i].unified_responses

C12_Idempotent == [][C12_Step]_vars

\* the submitted values of record i for f that share the highest count
TiedValues(i, f) ==
    LET R == SubmittedValues(i, f)
        n(v) == Cardinality({k \in 1..Len(R) : R[k] = v})
    IN  {R[k] : k \in {j \in 1..Len(R) : \A m \in 1..Len(R) : n(R[m]) <= n(R[j])}}

\* the last call drew majority_value with random.choice for record i
DrewAtRandom(i) ==
    /\ \/ Called("RatingQuestionStrategy", {"majority"})
       \/ Called("LabelQuestionStrategy", {"majority"})
    /\ Answered(i, call.field.name)
    /\ Cardinality(TiedValues(i, call.field.name)) > 1

(* C12, amended: the second call leaves the same unified_responses unless the
   member is the rating or single-label majority and the record's submitted
   values tie for the highest count; then the second call stores again one
   of the tied values, which may be another one than the first call stored *)
C12_StepUnlessTied ==
    (call' = call) =>
        \A i \in 1..Len(records) :
            \/ records'[i].unified_responses = records[i].unified_responses
            \/ /\ DrewAtRandom(i)
               /\ DOMAIN records'[i].unified_responses = {call.field.name}
               /\ records'[i].unified_responses[call.field.name].shape = "list"
               /\ \E v \in TiedValues(i, call.field.name) :
                    records'[i].unified_responses[call.field.name].items
                        = <<UnificationValueSchema(v, call.tag)>>

C12_IdempotentUnlessTied == [][C12_StepUnlessTied]_vars

\* a completed call that repeated the call before it and wrote both records
C12_Witness ==
    /\ repeated = "yes"
    /\ result.status = "returned"
    /\ Len(records) = 2
    /\ \A i \in 1..2 :
        /\ HasEntry(i)
        /\ Len(Written(i).items) > 0

----------------------------------------------------------------------------
\* the question class named after the strategy enum
MatchingQuestion(enum) ==
    IF enum = "RatingQuestionStrategy" THEN "RatingQuestion"
    ELSE IF enum = "LabelQuestionStrategy" THEN "LabelQuestion"
    ELSE "MultiLabelQuestion"

(* C16: a field argument that is neither a str nor a question object of the
   strategy's own class (LabelQuestion for LabelQuestionStrategy,
   MultiLabelQuestion for MultiLabelQuestionStrategy, RatingQuestion for
   RatingQuestionStrategy) makes the call fail: it raises, and returns nothing *)
C16_OnlyMatchingQuestion ==
    (/\ call # NoCall
     /\ call.field.type # "str"
     /\ call.field.type # MatchingQuestion(call.enum)) => result.status = "raised"

----------------------------------------------------------------------------
(* Binding a question to a strategy and unifying through the training data *)

InitBinding ==
    /\ qtype \in {"rating", "label", "multi_label"}
    /\ records \in UNION {Collections(qtype, n, MaxResponses - 1) : n \in 0..1}
    /\ call = NoCall
    /\ result = NoResult
    /\ repeated = "off"
    /\ object = NoObject
    /\ db = NoRows

\* RatingQuestionUnification(question=..., strategy=...)
RatingQuestionUnification_init ==
    /\ object = NoObject
    /\ \E args \in UnificationArgs(StrategyEnums) :
           Constructed(Construction("RatingQuestionUnification", args),
                       RatingQuestionUnification(args.question, args.strategy))
    /\ UNCHANGED <<db, qtype, records, repeated>>

\* LabelQuestionUnification(question=..., strategy=...)
LabelQuestionUnification_init ==
    /\ object = NoObject
    /\ \E args \in UnificationArgs(StrategyEnums) :
           Constructed(Construction("LabelQuestionUnification", args),
                       LabelQuestionUnification(args.question, args.strategy))
    /\ UNCHANGED <<db, qtype, records, repeated>>

\* TrainingDataForTextClassification(text=..., label=object).unify_responses(records),
\* over records whose responses answer a question of the kind of the unification
TrainingDataForTextClassification_unify_responses ==
    /\ object.class \in UnificationClasses
    /\ (object.class = "RatingQuestionUnification") <=> (qtype = "rating")
    /\ \E e \in TrainingDataUnifyEffects(object, records) :
        /\ records' = e.records
        /\ result' = e.result
    /\ call' = [enum |-> "TrainingDataForTextClassification", op |-> "unify_responses"]
    /\ UNCHANGED <<db, qtype, repeated, object>>

NextBinding ==
    \/ RatingQuestionUnification_init
    \/ LabelQuestionUnification_init
    \/ TrainingDataForTextClassification_unify_responses

SpecBinding == InitBinding /\ [][NextBinding]_vars

----------------------------------------------------------------------------
(* Vocabulary of the properties of fields and questions *)

\* the last call was a constructor call, or an assignment to an attribute
Constructing == call # NoCall /\ call.op = "__init__"
Assigning == call # NoCall /\ call.op = "__setattr__"

PairwiseDistinct(l) == \A i, j \in 1..Len(l) : i < j => l[i] # l[j]

\* the configuration breaks a cardinality or distinctness rule
BreaksRule(class, args) ==
    IF class = "RatingQuestion"
    THEN Len(args.values) < 2 \/ ~PairwiseDistinct(args.values)
    ELSE IF class \in {"LabelQuestion", "MultiLabelQuestion"}
    THEN \/ /\ args.labels.form = "list"
            /\ Len(args.labels.list) < 2 \/ ~PairwiseDistinct(args.labels.list)
         \/ /\ args.labels.form = "dict"
            /\ \/ Len(args.labels.dict) < 2
               \/ ~PairwiseDistinct([i \in 1..Len(args.labels.dict) |-> args.labels.dict[i].text])
         \/ /\ args.visible_labels.given
            /\ args.visible_labels.v # PyNone
            /\ args.visible_labels.v.n < 3
    ELSE FALSE

(* C17: the constructor of a question raises exactly when its arguments break
   a rule: fewer than 2 values or labels, a repeated value, a repeated label
   in a list, display texts of a dict that are not pairwise distinct, or an
   integer visible_labels below 3 *)
C17_RejectedExactly ==
    Constructing =>
        (result.status = "raised" <=> BreaksRule(call.enum, call.args))

----------------------------------------------------------------------------
\* the settings type of each class
TypeOfClass(class) ==
    IF class \in {"TextField", "TextQuestion"} THEN "text"
    ELSE IF class = "RatingQuestion" THEN "rating"
    ELSE IF class = "LabelQuestion" THEN "label_selection"
    ELSE "multi_label_selection"

\* the {value, text} pairs of the labels of a question, in declaration order
OptionsOfLabels(labels) ==
    IF labels.form = "list"
    THEN [i \in 1..Len(labels.list) |-> [text |-> labels.list[i], value |-> labels.list[i]]]
    ELSE [i \in 1..Len(labels.dict) |->
            [text |-> labels.dict[i].text, value |-> labels.dict[i].key]]

\* the settings map that the current fields of a field or question determine
DerivedSettings(obj) ==
    IF obj.class \in {"TextField", "TextQuestion"}
    THEN [type |-> TypeOfClass(obj.class), use_markdown |-> obj.use_markdown]
    ELSE IF obj.class = "RatingQuestion"
    THEN [type |-> TypeOfClass(obj.class),
          options |-> [i \in 1..Len(obj.values) |-> [value |-> obj.values[i]]]]
    ELSE [type |-> TypeOfClass(obj.class),
          options |-> OptionsOfLabels(obj.labels),
          visible_options |-> obj.visible_labels]

(* C18: a field or question whose settings no caller supplied or assigned
   holds, after its construction and after every accepted assignment to
   values, labels, visible_labels or use_markdown, exactly the settings its
   current fields determine; the settings are a function of the fields, so
   two constructions from the same arguments give equal settings *)
C18_SettingsDerived ==
    (object.class \in SchemaClasses /\ ~object.settings_set) =>
        object.settings = DerivedSettings(object)

\* an accepted assignment of a dict to the labels of a question that shows
\* three options
C18_Witness ==
    /\ Assigning
    /\ call.name = "labels"
    /\ result.status = "returned"
    /\ ~object.settings_set
    /\ object.labels.form = "dict"
    /\ object.visible_labels = PyInt(3)

(* C19: no caller sets the settings: an assignment to the attribute settings
   raises, and the object a constructor returns holds the settings derived
   from its fields even when the caller passed settings *)
C19_SettingsNeverSet ==
    /\ (Assigning /\ call.name = "settings") => result.status = "raised"
    /\ (Constructing /\ result.status = "returned") =>
            object.settings = DerivedSettings(object)

----------------------------------------------------------------------------
(* Vocabulary of the properties of unifications *)

ConstructingUnification ==
    call # NoCall /\ call.op = "__init__" /\ call.enum \in UnificationClasses

IsMember(value) == "enum" \in DOMAIN value

\* the strategy enum of the family of each question class
FamilyOf(class) ==
    IF class = "RatingQuestion" THEN "RatingQuestionStrategy"
    ELSE IF class = "LabelQuestion" THEN "LabelQuestionStrategy"
    ELSE "MultiLabelQuestionStrategy"

\* the question classes a unification class is declared over
QuestionsOf(class) ==
    IF class = "RatingQuestionUnification" THEN {"RatingQuestion"}
    ELSE {"LabelQuestion", "MultiLabelQuestion"}

----------------------------------------------------------------------------
\* C13: constructing a unification from a question of the three kinds and a
\* member of a strategy enum of another family than the question's fails,
\* and no unification ever holds a question with a strategy of another family.
C13_MismatchRejected ==
    /\ (/\ ConstructingUnification
        /\ call.args.question.class # "TextQuestion"
        /\ call.args.strategy.given
        /\ IsMember(call.args.strategy.v)
        /\ call.args.strategy.v.enum # FamilyOf(call.args.question.class))
       => result.status = "raised"
    /\ object.class \in UnificationClasses
       => object.strategy.enum = FamilyOf(object.question.class)

----------------------------------------------------------------------------
\* C14: a unification constructed over a question of its kinds with a str as
\* strategy holds the member of the enum of the question's own family with
\* that value and the question as it was given; with a str that is no value
\* of that enum the construction fails.
C14_TagOfOwnFamily ==
    (/\ ConstructingUnification
     /\ call.args.question.class \in QuestionsOf(call.enum)
     /\ call.args.strategy.given
     /\ IsStr(call.args.strategy.v))
    => IF call.args.strategy.v.s \in TagsOf(FamilyOf(call.args.question.class))
       THEN /\ result.status = "returned"
            /\ object.strategy = Member(FamilyOf(call.args.question.class),
                                        call.args.strategy.v.s)
            /\ object.question = call.args.question
       ELSE result.status = "raised"

----------------------------------------------------------------------------
\* C15: unifying through the training data does to the records what the
\* strategy of its unification does when called with the unification's
\* question, and completes whenever that call completes.
C15_Step ==
    (call' # NoCall /\ call'.op = "unify_responses")
    => \E e \in ReduceEffects(object, records) :
           /\ records' = e.records
           /\ e.result.status = "returned" => result'.status = "returned"

C15_ForwardsToStrategy == [][C15_Step]_vars

----------------------------------------------------------------------------
(* Constructing records *)

\* a ResponseSchema instance and a list, as values of the responses argument
PyResponse(r) == [form |-> "response", r |-> r]

\* the values a caller passes as responses: None, a response, a list of
\* responses, or a str, which is neither
ResponsesValues(t) ==
    {PyNone, PyStr("x")}
    \cup {PyResponse(r) : r \in ResponseSchema(t)}
    \cup {PyListArg(l) : l \in UNION {SeqsOfLen(ResponseSchema(t), n) : n \in 0..(MaxResponses - 1)}}

\* Optional[Union[ResponseSchema, List[ResponseSchema]]] = None
responses_field(arg) ==
    IF ~arg.given THEN Accepted(PyNone)
    ELSE IF arg.v = PyNone THEN Accepted(PyNone)
    ELSE IF "form" \in DOMAIN arg.v THEN Accepted(arg.v)
    ELSE Rejected("ValidationError")

\* a record's validator without the branch for a single response
responses_must_be_a_list_unwrapped(v) ==
    IF v = PyNone THEN PyListArg(<<>>)
    ELSE IF v.form = "list" /\ v.list = <<>> THEN PyListArg(<<>>)
    ELSE v

\* FeedbackRecord.responses_must_be_a_list
responses_must_be_a_list(v) ==
    IF v = PyNone THEN PyListArg(<<>>)
    ELSE IF v.form = "list" /\ v.list = <<>> THEN PyListArg(<<>>)
    ELSE IF v.form = "response" THEN PyListArg(<<v.r>>)
    ELSE v

\* the values a caller can pass as unified_responses: None, an empty dict or
\* a dict with an entry for the dataset's question
UnifiedResponsesValues(t) ==
    {PyNone, PyDictArg(NoUnifiedResponses)}
    \cup {PyDictArg([q \in AnsweredNames |-> ListOf(<<UnificationValueSchema(v, "majority")>>)]) :
            v \in ValuesOfType(t)}

\* Optional[Dict[str, List[UnificationValueSchema]]] = None
unified_responses_field(arg) ==
    IF ~arg.given THEN PyNone ELSE arg.v

\* the record FeedbackRecord's construction makes of its arguments
FeedbackRecord_new(args) ==
    LET v == responses_field(args.responses)
    IN  IF ~v.ok THEN v
        ELSE Accepted([class |-> "FeedbackRecord",
                       responses |-> responses_must_be_a_list(v.v),
                       unified_responses |-> unified_responses_field(args.unified_responses)])

InitRecord ==
    /\ qtype \in {"rating", "label", "multi_label"}
    /\ records = <<>>
    /\ call = NoCall
    /\ result = NoResult
    /\ repeated = "off"
    /\ object = NoObject
    /\ db = NoRows

\* FeedbackRecord(fields=..., responses=...)
FeedbackRecord_init ==
    /\ object = NoObject
    /\ \E responses \in Optional(ResponsesValues(qtype)),
          unified_responses \in Optional(UnifiedResponsesValues(qtype)) :
           LET args == [responses |-> responses, unified_responses |-> unified_responses]
           IN  Constructed(Construction("FeedbackRecord", args), FeedbackRecord_new(args))
    /\ UNCHANGED <<db, qtype, records, repeated>>

NextRecord == FeedbackRecord_init

SpecRecord == InitRecord /\ [][NextRecord]_vars

----------------------------------------------------------------------------
\* C20: every constructed record holds a list as responses, never None and
\* never a bare response: the one-element list of a response given alone, the
\* list given with its elements in their order, and the empty list when
\* responses was left out, None or empty.
C20_ResponsesNormalised ==
    object.class = "FeedbackRecord"
    => LET arg == call.args.responses
       IN  /\ object.responses.form = "list"
           /\ object.responses.list =
                  IF ~arg.given \/ arg.v = PyNone THEN <<>>
                  ELSE IF arg.v.form = "response" THEN <<arg.v.r>>
                  ELSE arg.v.list

C20_Witness ==
    /\ object.class = "FeedbackRecord"
    /\ call.args.responses.given
    /\ call.args.responses.v # PyNone
    /\ call.args.responses.v.form = "response"
    /\ object.responses = PyListArg(<<call.args.responses.v.r>>)

----------------------------------------------------------------------------
(* Records from construction to their serialized view *)

\* Config.fields of FeedbackRecord: the fields with exclude set, none
ExcludedFields_none == {}

\* Config.fields of FeedbackRecord: the fields with exclude set
ExcludedFields == {"unified_responses"}

\* FeedbackRecord.dict(), and the keys of FeedbackRecord.json()
FeedbackRecord_dict(rec) ==
    [name \in DOMAIN rec \ ExcludedFields |-> rec[name]]

\* the constructed record as the strategies read it; None and the empty dict
\* are both the mapping without entries
AsRecord(obj) ==
    [responses |-> obj.responses.list,
     unified_responses |-> IF obj.unified_responses = PyNone
                           THEN NoUnifiedResponses
                           ELSE obj.unified_responses.dict]

\* records = [object]: the caller puts the constructed record in the list
\* it will pass to unify_responses
Records_hold ==
    /\ object.class = "FeedbackRecord"
    /\ records = <<>>
    /\ records' = <<AsRecord(object)>>
    /\ UNCHANGED <<db, qtype, call, result, repeated, object>>

NextUnified ==
    \/ FeedbackRecord_init
    \/ Records_hold
    \/ RatingQuestionStrategy_unify_responses
    \/ LabelQuestionStrategy_unify_responses
    \/ MultiLabelQuestionStrategy_unify_responses

SpecUnified == InitRecord /\ [][NextUnified]_vars

----------------------------------------------------------------------------
(* Vocabulary of the properties of records *)

\* the last call constructed a record from fields, responses and external_id
ConstructedOrdinarily ==
    /\ "op" \in DOMAIN call
    /\ call.op = "__init__"
    /\ call.enum = "FeedbackRecord"
    /\ result.status = "returned"
    /\ ~call.args.unified_responses.given

\* the last call was a unify_responses of a strategy
Unifying == "tag" \in DOMAIN call

----------------------------------------------------------------------------
\* C21: a record constructed from fields, responses and external_id has
\* unified_responses None, and keeps it so until a strategy runs; the dict a
\* record serializes to never has the key unified_responses, before and after
\* any number of unify_responses calls.
C21_UnifiedResponsesInternal ==
    /\ ConstructedOrdinarily
       => /\ object.unified_responses = PyNone
          /\ \A i \in 1..Len(records) :
                records[i].unified_responses = NoUnifiedResponses
    /\ \A i \in 1..Len(records) :
          /\ "unified_responses" \notin DOMAIN FeedbackRecord_dict(records[i])
          /\ "responses" \in DOMAIN FeedbackRecord_dict(records[i])

\* a strategy has written the entry of q1 to a record, and the record's dict
\* holds its responses alone
C21_Witness ==
    /\ Unifying
    /\ result.status = "returned"
    /\ Len(records) = 1
    /\ "q1" \in DOMAIN records[1].unified_responses
    /\ object.unified_responses = PyNone
    /\ DOMAIN FeedbackRecord_dict(records[1]) = {"responses"}

----------------------------------------------------------------------------
(* The server: POST /api/v1/records/{record_id}/responses, as its tests      *)
(* (src/tests/server/api/v1/test_records.py) describe it                     *)

\* the users of the tests: the admin and an annotator of each workspace
Users == {"admin", "annotator_1", "annotator_2"}
\* the request's API key header: the key of a user, or no header
Credentials == Users \cup {"missing"}

\* the records in the database and the workspace of the dataset of each
StoredRecords == {"r1", "r2"}
WorkspaceOf(record_id) == IF record_id = "r1" THEN "w1" ELSE "w2"
\* the ids a request can name: those of the records and one of no record
RecordIds == StoredRecords \cup {"r0"}

WorkspacesOf(user) ==
    IF user = "annotator_1" THEN {"w1"}
    ELSE IF user = "annotator_2" THEN {"w2"}
    ELSE {}

\* the JSON bodies of the tests: values an object, values a string
ResponseBodies ==
    {[values |-> PyDictArg([input_ok |-> PyStr("yes"), output_ok |-> PyStr("yes")])],
     [values |-> PyStr("invalid")]}

BodyIsValid(json) == "dict" \in DOMAIN json.values

\* a row of the table of responses
Response(record_id, user, json) ==
    [record_id |-> record_id, user_id |-> user, values |-> json.values.dict]

HasResponse(rows, record_id, user) ==
    \E i \in 1..Len(rows) : rows[i].record_id = record_id /\ rows[i].user_id = user

Responded(code, rows) == [code |-> code, rows |-> rows]

\* the handler storing a response whether or not the user has one on the record
create_record_response_again(rows, credentials, record_id, json) ==
    IF credentials = "missing" THEN Responded(401, rows)
    ELSE IF ~BodyIsValid(json) THEN Responded(422, rows)
    ELSE IF record_id \notin StoredRecords THEN Responded(404, rows)
    ELSE IF credentials # "admin" /\ WorkspaceOf(record_id) \notin WorkspacesOf(credentials)
    THEN Responded(403, rows)
    ELSE Responded(201, Append(rows, Response(record_id, credentials, json)))

\* the handler of POST /api/v1/records/{record_id}/responses
create_record_response(rows, credentials, record_id, json) ==
    IF credentials = "missing" THEN Responded(401, rows)
    ELSE IF ~BodyIsValid(json) THEN Responded(422, rows)
    ELSE IF record_id \notin StoredRecords THEN Responded(404, rows)
    ELSE IF credentials # "admin" /\ WorkspaceOf(record_id) \notin WorkspacesOf(credentials)
    THEN Responded(403, rows)
    ELSE IF HasResponse(rows, record_id, credentials) THEN Responded(409, rows)
    ELSE Responded(201, Append(rows, Response(record_id, credentials, json)))

Request(credentials, record_id, json) ==
    [enum |-> "POST /api/v1/records/{record_id}/responses", op |-> "request",
     credentials |-> credentials, record_id |-> record_id, json |-> json]

InitServer ==
    /\ qtype = "rating"
    /\ records = <<>>
    /\ call = NoCall
    /\ result = NoResult
    /\ repeated = "off"
    /\ object = NoObject
    /\ db = NoRows

\* client.post(f"/api/v1/records/{record_id}/responses", headers=..., json=...)
Records_create_response ==
    /\ \E credentials \in Credentials, record_id \in RecordIds, json \in ResponseBodies :
          LET response == create_record_response(db, credentials, record_id, json)
          IN  /\ db' = response.rows
              /\ result' = [status |-> "responded", code |-> response.code]
              /\ call' = Request(credentials, record_id, json)
    /\ UNCHANGED <<qtype, records, repeated, object>>

NextServer == Records_create_response

SpecServer == InitServer /\ [][NextServer]_vars

----------------------------------------------------------------------------
\* C22: a request to create a response changes the stored responses only when
\* it is answered 201, and then adds exactly one response, of the
\* authenticated user (the admin or an annotator of the record's workspace) on
\* the record named, who had none on it; a request answered 401, 403, 404, 409
\* or 422 leaves the stored responses as they were; no user ever has two
\* responses on one record.
C22_NoTwoResponses ==
    \A i, j \in 1..Len(db) :
        (db[i].record_id = db[j].record_id /\ db[i].user_id = db[j].user_id) => i = j

C22_Step ==
    /\ result'.code \in {201, 401, 403, 404, 409, 422}
    /\ IF result'.code = 201
       THEN /\ Len(db') = Len(db) + 1
            /\ SubSeq(db', 1, Len(db)) = db
            /\ db'[Len(db')].user_id = call'.credentials
            /\ db'[Len(db')].record_id = call'.record_id
            /\ call'.credentials \in Users
            /\ call'.record_id \in StoredRecords
            /\ \/ call'.credentials = "admin"
               \/ WorkspaceOf(call'.record_id) \in WorkspacesOf(call'.credentials)
            /\ ~HasResponse(db, call'.record_id, call'.credentials)
       ELSE db' = db
    /\ call'.credentials = "missing" => result'.code = 401
    /\ (call'.credentials # "missing" /\ HasResponse(db, call'.record_id, call'.credentials))
       => result'.code # 201

C22_StoredOnlyOnSuccess == []C22_NoTwoResponses /\ [][C22_Step]_vars

\* the annotator of the workspace asked twice: one response stored, then 409
C22_Witness ==
    /\ result.status = "responded"
    /\ result.code = 409
    /\ call.credentials = "annotator_1"
    /\ Len(db) = 1
    /\ db[1].user_id = "annotator_1"
    /\ db[1].record_id = call.record_id

----------------------------------------------------------------------------
\* C23: multi-label majority takes each submitted response as the set of the
\* labels in its list: for a record with N submitted responses the stored list
\* holds a label exactly when more than half of the N responses chose it, a
\* label written twice in one response counting once for that response.
Choosers(label, R) ==
    Cardinality({k \in 1..Len(R) : \E p \in 1..Len(R[k].l) : R[k].l[p] = label})

C23_ResponsesAsSets ==
    (Called("MultiLabelQuestionStrategy", {"majority"}) /\ FieldAccepted) =>
        \A i \in 1..Len(records) :
            ((\A j \in 1..i : Answered(j, call.field.name)) /\ Handled(i)) =>
                LET R == SubmittedValues(i, call.field.name)
                IN  /\ HasEntry(i)
                    /\ \A label \in Labels :
                          (\E p \in 1..Len(Written(i).items[1].value.l) :
                                Written(i).items[1].value.l[p] = label)
                          <=> 2 * Choosers(label, R) > Len(R)

----------------------------------------------------------------------------
(* Collections whose responses may lack a value for the question *)

\* ResponseSchema: values is a Dict[str, ValueSchema] and may lack the key of
\* a question, whatever the status (a question that is not required)
ResponseSchema_optional(t) ==
    [status : {"submitted", "discarded"},
     values : UNION {[D -> ValuesOfType(t)] : D \in SUBSET AnsweredNames}]

\* the collections of n records holding at most b of the responses S together
RECURSIVE CollectionsOf(_, _, _)
CollectionsOf(S, n, b) ==
    IF n = 0 THEN {<<>>}
    ELSE UNION {
           {Append(c, FeedbackRecord(rs)) :
                c \in CollectionsOf(S, n - 1, b - k),
                rs \in SeqsOfLen(S, k)}
           : k \in 0..b}

InitOptional ==
    /\ qtype \in {"rating", "label", "multi_label"}
    /\ records \in UNION {CollectionsOf(ResponseSchema_optional(qtype), n, MaxResponses - 1) :
                            n \in CollectionSizes}
    /\ call = NoCall
    /\ result = NoResult
    /\ repeated = "off"
    /\ object = NoObject
    /\ db = NoRows

SpecOptional == InitOptional /\ [][Next]_vars

----------------------------------------------------------------------------
\* C24: a submitted response without a value for the field contributes
\* nothing: when every record has a submitted response with a value for the
\* field, max, min, majority and disagreement complete, and what they write to
\* a record is what they compute from its submitted responses that have one.
Carrying(rs, f) == SelectSeq(rs, LAMBDA resp : f \in DOMAIN resp.values)

\* the record without its responses that have no value for f
WithoutMissing(rec, f) == [rec EXCEPT !.responses = Carrying(rec.responses, f)]

C24_MissingValuesSkipped ==
    (/\ call.enum # "none"
     /\ FieldAccepted
     /\ call.tag \in {"max", "min", "majority", "disagreement"}
     /\ Len(records) > 0
     /\ \A i \in 1..Len(records) :
            Carrying(OnlySubmitted(records[i].responses), call.field.name) # <<>>)
    => /\ result.status = "returned"
       /\ \A i \in 1..Len(records) :
             \E o \in RecordOutcomes(call.enum, call.tag,
                                     WithoutMissing(records[i], call.field.name),
                                     call.field.name) :
                /\ o.ok
                /\ records[i].unified_responses = [q \in {call.field.name} |-> o.stored]

----------------------------------------------------------------------------
\* C25: every UnificationValueSchema a call writes holds as strategy the
\* member the call was made on: the same enum (rating, label, multi-label) and
\* the same value.
C25_StrategyOfTheCall ==
    (call.enum # "none" /\ FieldAccepted /\ call.tag # "majority_weighted") =>
        \A i \in 1..Len(records) :
            Handled(i) =>
                /\ HasEntry(i)
                /\ \A k \in 1..Len(Written(i).items) :
                      Written(i).items[k].strategy = [enum |-> call.enum, tag |-> call.tag]

----------------------------------------------------------------------------
(* Collections of records with their fields, external_id and the user_id of  *)
(* each response                                                             *)

\* ResponseSchema.user_id: None or the id of a user
UserIds == {PyNone, PyStr("u1")}

\* the responses of the users, each with a value for the dataset's question
ResponseSchema_of_user(t) ==
    [user_id : UserIds, status : {"submitted", "discarded"},
     values : [AnsweredNames -> ValuesOfType(t)]]

\* FeedbackRecord.external_id of the record at each position of the collection
ExternalIds == <<PyStr("e1"), PyStr("e2")>>

\* the records of collection c with fields and external_id
WithAttributes(c) ==
    [i \in 1..Len(c) |->
        [fields |-> [text |-> PyStr("a")],
         external_id |-> ExternalIds[i],
         responses |-> c[i].responses,
         unified_responses |-> c[i].unified_responses]]

InitFrame ==
    /\ qtype \in {"rating", "label", "multi_label"}
    /\ \E n \in CollectionSizes :
          \E c \in CollectionsOf(ResponseSchema_of_user(qtype), n, MaxResponses - 1) :
              records = WithAttributes(c)
    /\ call = NoCall
    /\ result = NoResult
    /\ repeated = "off"
    /\ object = NoObject
    /\ db = NoRows

SpecFrame == InitFrame /\ [][Next]_vars

----------------------------------------------------------------------------
\* C26: a unify_responses call, returning or raising, leaves in every record
\* all but unified_responses as it was: the fields, the external_id and the
\* list of responses with the user_id, status and values of each in their
\* order; the collection holds the same records in the same order.
C26_Step ==
    /\ Len(records') = Len(records)
    /\ \A i \in 1..Len(records) :
          /\ DOMAIN records'[i] = DOMAIN records[i]
          /\ records'[i].fields = records[i].fields
          /\ records'[i].external_id = records[i].external_id
          /\ records'[i].responses = records[i].responses

C26_OnlyUnifiedResponsesChange == [][C26_Step]_vars

\* a call wrote the entry of the first record, which holds a discarded
\* response next to a submitted one of a user, and raised on the second
C26_Witness ==
    /\ call.enum # "none"
    /\ result.status = "raised"
    /\ result.at = 2
    /\ Len(records) = 2
    /\ "q1" \in DOMAIN records[1].unified_responses
    /\ records[1].external_id = PyStr("e1")
    /\ Len(records[1].responses) = 2
    /\ records[1].responses[1].status = "discarded"
    /\ records[1].responses[2].status = "submitted"
    /\ records[1].responses[2].user_id = PyStr("u1")

----------------------------------------------------------------------------
\* C27: the records are handled one by one in the order of the collection and
\* nothing is undone: when a call raises on the record at position k, every
\* record before k holds the entry the call computed for it, and the record at
\* k and every record after it hold the unified_responses they held before.
C27_Step ==
    (call'.enum # "none" /\ result'.status = "raised") =>
        /\ Len(records') = Len(records)
        /\ \A i \in 1..Len(records) :
              IF i < result'.at
              THEN \E o \in RecordOutcomes(call'.enum, call'.tag, records[i], call'.field.name) :
                      /\ o.ok
                      /\ records'[i].unified_responses
                            = [q \in {call'.field.name} |-> o.stored]
              ELSE records'[i].unified_responses = records[i].unified_responses

C27_NoRollback == [][C27_Step]_vars

\* max or majority wrote the first record and raised on the second, which
\* keeps the empty list an earlier disagreement call left in it
C27_Witness ==
    /\ call.enum # "none"
    /\ call.tag \in {"max", "majority"}
    /\ result.status = "raised"
    /\ result.at = 2
    /\ Len(records) = 2
    /\ "q1" \in DOMAIN records[1].unified_responses
    /\ \A k \in 1..Len(records[1].unified_responses["q1"].items) :
          records[1].unified_responses["q1"].items[k].strategy.tag = call.tag
    /\ "q1" \in DOMAIN records[2].unified_responses
    /\ records[2].unified_responses["q1"] = ListOf(<<>>)

====
